---- MODULE Spec2Model ----
(***************************************************************************)
(* TensorPipeAgent (torch/csrc/distributed/rpc/tensorpipe_agent.cpp).      *)
(*                                                                         *)
(* One sending agent (Self) and the agents of its peers.  Self issues      *)
(* send(); every peer runs the listener, the server loop (respond) and its *)
(* own worker pool.  The transport (tensorpipe) is the environment: it     *)
(* completes writes, reads and accepts, in the order issued per pipe, and  *)
(* once a pipe has failed every later callback of that pipe is invoked     *)
(* with an error.                                                          *)
(***************************************************************************)
EXTENDS Integers, Sequences, FiniteSets, TLC

\* ------------------------------------------------------------------ bounds
\* calls of send, those that throw included
MaxSends == 2
\* disruptions of a run: pipes that break, accepts that fail, agents that
\* are shut down
MaxFaults == 1

\* ------------------------------------------------------------------ workers
Self == "A"
Peers == {"B", "C"}
Workers == {Self} \cup Peers
\* a WorkerInfo whose name is in nobody's workerNameToURL_
UnknownWorker == "Z"
Destinations == Peers \cup {UnknownWorker}

\* ------------------------------------------------------------------ messages
MessageTypes == {"REQUEST", "RESPONSE", "EXCEPTION"}

Msg(t, i, p) == [type |-> t, id |-> i, payload |-> p]

\* id of a Message on which setId was never called
UnsetId == -1

\* the payload the caller puts in the request of the n-th handle
RequestPayload(n) == "req" \o ToString(n)

\* what the user callback answers to a request payload, and the text of its
\* failure (what() of the exception it throws or of the error of its future)
CbValue(p) == "ok:" \o p
CbError(p) == "failed:" \o p

WriteErrorText == "write error"
ReadErrorText == "read error"

\* ------------------------------------------------------------------ futures
NoValue == Msg("NONE", UnsetId, "")

\* a FutureMessage that is not complete; n counts the completions fired on it
NewFuture == [state |-> "pending", value |-> NoValue, error |-> "", n |-> 0]

Completed(f) == f.state # "pending"

\* FutureMessage::markCompleted: single assignment, the first completion stays
MarkCompleted(f, m) ==
  IF Completed(f) THEN [f EXCEPT !.n = 2]
  ELSE [f EXCEPT !.state = "value", !.value = m, !.n = 1]

\* FutureMessage::setError
SetError(f, text) ==
  IF Completed(f) THEN [f EXCEPT !.n = 2]
  ELSE [f EXCEPT !.state = "error", !.error = text, !.n = 1]

\* ------------------------------------------------------------------ helpers
\* an erase that leaves the entry in place
KeepEntry(f, k) == f

\* a function without the key k
Erase(f, k) == [x \in DOMAIN f \ {k} |-> f[x]]

\* a function with the key k set (std::map::operator[] assignment)
Put(f, k, v) == [x \in DOMAIN f \cup {k} |-> IF x = k THEN v ELSE f[x]]

EmptyMap == [x \in {} |-> 0]

Range(f) == {f[x] : x \in DOMAIN f}

\* ------------------------------------------------------------------ state
VARIABLES
  lifecycle,        \* per worker: "constructed", "running" (rpcAgentRunning_),
                    \* "stopping" (flag cleared, in shutdownImpl), "stopped"
                    \* (shutdownImpl has returned; followed for Self only)
  workerNameToURL,  \* Self's workerNameToURL_: the names that have a URL
  nextMessageID,    \* Self's nextMessageID_
  connectedPipes,   \* Self's connectedPipes_: destination -> ClientPipe
  connectCalls,     \* per destination: the calls of context_->connect(url)
  mutex,            \* Self's mutex_: "free", or the pipe whose read-error
                    \* continuation holds it
  futures,          \* the FutureMessage of the n-th successful send
  stamped,          \* for the n-th handle: the destination and the id send stamped
  sendResult,       \* how the latest call of send ended
  thrown,           \* the calls of send that threw
  assertFailed,     \* a TORCH_INTERNAL_ASSERT of the read continuation fired
  clientWrites,     \* per pipe: request writes whose callback has not run
  clientReads,      \* per pipe: reads armed by Self whose callback has not run
  toServer,         \* per pipe: requests written, not yet read by the peer
  toClient,         \* per pipe: responses the peer has written, not yet read by Self
  pipeError,        \* per pipe: the transport has reported an error on it
  acceptArmed,      \* per peer: a listener_->accept is outstanding
  serverLoop,       \* per pipe: "none", "reading" (respond armed), "closed"
  threadPool,       \* per worker: the tasks handed to threadPool_.run
  pendingCb         \* per peer: incomplete futures returned by cb_, with the
                    \* callback of respond registered

clientVars == <<workerNameToURL, nextMessageID, connectedPipes, connectCalls, mutex,
                futures, stamped, sendResult, thrown, assertFailed>>
wireVars == <<clientWrites, clientReads, toServer, toClient, pipeError>>
serverVars == <<acceptArmed, serverLoop, pendingCb>>
vars == <<lifecycle, clientVars, wireVars, serverVars, threadPool>>

\* rpcAgentRunning_.load()
rpcAgentRunning(w) == lifecycle[w] = "running"

\* ClientPipe(context_->connect(url)): the pipe to a peer is named by the peer
ClientPipe(pipe) ==
  [pipe_ |-> pipe, readError_ |-> FALSE, pendingResponseMessage_ |-> EmptyMap]

\* the handles a ClientPipe holds in its pending table
PendingFutures(cp) == Range(cp.pendingResponseMessage_)

Init ==
  /\ lifecycle = [w \in Workers |-> "constructed"]
  /\ workerNameToURL = {}
  /\ nextMessageID = 0
  /\ connectedPipes = EmptyMap
  /\ connectCalls = [p \in Peers |-> 0]
  /\ mutex = "free"
  /\ futures = <<>>
  /\ stamped = <<>>
  /\ sendResult = "none"
  /\ thrown = 0
  /\ assertFailed = FALSE
  /\ clientWrites = [p \in Peers |-> <<>>]
  /\ clientReads = [p \in Peers |-> 0]
  /\ toServer = [p \in Peers |-> <<>>]
  /\ toClient = [p \in Peers |-> <<>>]
  /\ pipeError = [p \in Peers |-> FALSE]
  /\ acceptArmed = [p \in Peers |-> FALSE]
  /\ serverLoop = [p \in Peers |-> "none"]
  /\ threadPool = [w \in Workers |-> {}]
  /\ pendingCb = [p \in Peers |-> {}]

\* ------------------------------------------------------------------ environment
\* the disruptions injected so far
Faults ==
  Cardinality({p \in Peers : pipeError[p]})
    + Cardinality({p \in Peers : lifecycle[p] # "constructed" /\ ~acceptArmed[p]})
    + Cardinality({w \in Workers : lifecycle[w] \in {"stopping", "stopped"}})

\* a callback of pipe p may be invoked with an error: the pipe has failed
\* already, or it fails now
MayFail(p) == pipeError[p] \/ Faults < MaxFaults

\* ------------------------------------------------------------------ lifecycle
\* RpcAgent::start: sets rpcAgentRunning_, then startImpl.  startImpl of Self
\* reads every peer's address from the store, which blocks until the peer has
\* published it; it ends by arming the first accept.
Start(w) ==
  /\ lifecycle[w] = "constructed"
  /\ w = Self => \A p \in Peers : lifecycle[p] # "constructed"
  /\ lifecycle' = [lifecycle EXCEPT ![w] = "running"]
  /\ workerNameToURL' = IF w = Self THEN Workers ELSE workerNameToURL
  /\ acceptArmed' = IF w \in Peers THEN [acceptArmed EXCEPT ![w] = TRUE] ELSE acceptArmed
  /\ UNCHANGED <<nextMessageID, connectedPipes, futures, stamped, sendResult, thrown,
                 assertFailed, wireVars, serverLoop, pendingCb, threadPool>>
  /\ UNCHANGED <<connectCalls, mutex>>

\* RpcAgent::shutdown clears rpcAgentRunning_ and enters shutdownImpl
Shutdown(w) ==
  /\ lifecycle[w] = "running"
  /\ Faults < MaxFaults
  /\ lifecycle' = [lifecycle EXCEPT ![w] = "stopping"]
  /\ UNCHANGED <<clientVars, wireVars, serverVars, threadPool>>

\* shutdownImpl: threadPool_.waitWorkComplete() returns once the pool is idle
ShutdownImpl(w) ==
  /\ lifecycle[w] = "stopping"
  /\ threadPool[w] = {}
  /\ lifecycle' = [lifecycle EXCEPT ![w] = "stopped"]
  /\ UNCHANGED <<clientVars, wireVars, serverVars, threadPool>>

\* ------------------------------------------------------------------ send
\* the three synchronous failures of send, in the order the code tests them
SendFailure(to, type) ==
  IF type # "REQUEST" THEN "not_request"
  ELSE IF ~rpcAgentRunning(Self) THEN "not_running"
  ELSE IF to \notin workerNameToURL THEN "unknown_worker"
  ELSE "none"

\* a send that takes its message id before it tests the preconditions
SendThrowsAfterId(to, type) ==
  /\ SendFailure(to, type) # "none"
  /\ Len(futures) + thrown < MaxSends
  /\ sendResult' = SendFailure(to, type)
  /\ thrown' = thrown + 1
  /\ nextMessageID' = nextMessageID + 1
  /\ UNCHANGED <<lifecycle, workerNameToURL, connectedPipes, futures, stamped,
                 assertFailed, wireVars, serverVars, threadPool>>
  /\ UNCHANGED <<connectCalls, mutex>>

\* send throws: TORCH_CHECK(isRequest), the "no longer running" runtime_error,
\* or findWorkerURL's TORCH_CHECK
SendThrows(to, type) ==
  /\ SendFailure(to, type) # "none"
  /\ Len(futures) + thrown < MaxSends
  /\ sendResult' = SendFailure(to, type)
  /\ thrown' = thrown + 1
  /\ UNCHANGED <<lifecycle, workerNameToURL, nextMessageID, connectedPipes, futures,
                 stamped, assertFailed, wireVars, serverVars, threadPool>>
  /\ UNCHANGED <<connectCalls, mutex>>

\* a registry that connects anew on every send, replacing the entry
EmplaceAlways(pipes, to) == Put(pipes, to, ClientPipe(to))

\* connectedPipes_.find, and emplace of a new ClientPipe when there is none
Emplace(pipes, to) ==
  IF to \in DOMAIN pipes THEN pipes ELSE Put(pipes, to, ClientPipe(to))

\* the calls of connect after a send to `to`: one more when emplace ran, that
\* is when the registry after the lookup holds another ClientPipe than before
Connects(calls, pipes, to) ==
  IF to \in DOMAIN pipes /\ Emplace(pipes, to)[to] = pipes[to]
  THEN calls ELSE [calls EXCEPT ![to] = @ + 1]

\* a counter that hands out the same id again
SameMessageID(id) == id

\* nextMessageID_++: the value of the counter after an id was taken
NextMessageID(id) == id + 1

\* send returns a handle: the locked section (find or connect, new future, id
\* from nextMessageID_++, insertion in the pending table), then pipeWrite
Send(to) ==
  /\ SendFailure(to, "REQUEST") = "none"
  /\ Len(futures) + thrown < MaxSends
  /\ mutex = "free"
  /\ LET h == Len(futures) + 1
         id == nextMessageID
         pipes == Emplace(connectedPipes, to)
         request == Msg("REQUEST", id, RequestPayload(h))
     IN /\ connectedPipes' =
             [pipes EXCEPT ![to].pendingResponseMessage_ = Put(@, id, h)]
        /\ connectCalls' = Connects(connectCalls, connectedPipes, to)
        /\ nextMessageID' = NextMessageID(id)
        /\ futures' = Append(futures, NewFuture)
        /\ stamped' = Append(stamped, [to |-> to, id |-> id])
        /\ clientWrites' = [clientWrites EXCEPT
             ![pipes[to].pipe_] = Append(@, [message |-> request, future |-> h])]
  /\ sendResult' = "ok"
  /\ UNCHANGED <<lifecycle, workerNameToURL, mutex, thrown, assertFailed, clientReads, toServer,
                 toClient, pipeError, serverVars, threadPool>>

\* ------------------------------------------------------------------ client continuations
\* a write continuation that arms the read whether or not the write failed
ClientWriteDoneAlwaysReads(p, err) ==
  /\ clientWrites[p] # <<>>
  /\ pipeError[p] => err
  /\ err => pipeError[p] \/ Faults < MaxFaults
  /\ LET w == Head(clientWrites[p])
     IN IF err
        THEN /\ futures' = [futures EXCEPT ![w.future] = SetError(@, WriteErrorText)]
             /\ pipeError' = [pipeError EXCEPT ![p] = TRUE]
             /\ UNCHANGED toServer
        ELSE /\ toServer' = [toServer EXCEPT ![p] = Append(@, w.message)]
             /\ UNCHANGED <<futures, pipeError>>
  /\ clientReads' = [clientReads EXCEPT ![p] = @ + 1]
  /\ clientWrites' = [clientWrites EXCEPT ![p] = Tail(@)]
  /\ UNCHANGED <<lifecycle, workerNameToURL, nextMessageID, connectedPipes, stamped,
                 sendResult, thrown, assertFailed, toClient, serverVars, threadPool>>
  /\ UNCHANGED <<connectCalls, mutex>>

\* a write continuation that arms no read
ClientWriteDoneNoRead(p, err) ==
  /\ clientWrites[p] # <<>>
  /\ pipeError[p] => err
  /\ err => MayFail(p)
  /\ LET w == Head(clientWrites[p])
     IN IF err
        THEN /\ futures' = [futures EXCEPT ![w.future] = SetError(@, WriteErrorText)]
             /\ pipeError' = [pipeError EXCEPT ![p] = TRUE]
             /\ UNCHANGED <<clientReads, toServer>>
        ELSE /\ toServer' = [toServer EXCEPT ![p] = Append(@, w.message)]
             /\ UNCHANGED <<clientReads, futures, pipeError>>
  /\ clientWrites' = [clientWrites EXCEPT ![p] = Tail(@)]
  /\ UNCHANGED <<lifecycle, workerNameToURL, nextMessageID, connectedPipes, stamped,
                 sendResult, thrown, assertFailed, toClient, serverVars,
                 threadPool>>
  /\ UNCHANGED <<connectCalls, mutex>>

\* the callback send passes to pipeWrite.  Writes of a pipe complete in the
\* order issued; a pipe that has failed fails every later callback.
ClientWriteDone(p, err) ==
  /\ clientWrites[p] # <<>>
  /\ pipeError[p] => err
  /\ err => MayFail(p)
  /\ LET w == Head(clientWrites[p])
     IN IF err
        THEN /\ futures' = [futures EXCEPT ![w.future] = SetError(@, WriteErrorText)]
             /\ pipeError' = [pipeError EXCEPT ![p] = TRUE]
             /\ UNCHANGED <<clientReads, toServer>>
        ELSE /\ toServer' = [toServer EXCEPT ![p] = Append(@, w.message)]
             /\ clientReads' = [clientReads EXCEPT ![p] = @ + 1]
             /\ UNCHANGED <<futures, pipeError>>
  /\ clientWrites' = [clientWrites EXCEPT ![p] = Tail(@)]
  /\ UNCHANGED <<lifecycle, workerNameToURL, nextMessageID, connectedPipes, stamped,
                 sendResult, thrown, assertFailed, toClient, serverVars,
                 threadPool>>
  /\ UNCHANGED <<connectCalls, mutex>>

\* a flush that fails only the first future of the table
FlushFirstPending(fs, cp) ==
  [h \in DOMAIN fs |->
     IF h \in PendingFutures(cp) /\ \A g \in PendingFutures(cp) : h <= g
     THEN SetError(fs[h], ReadErrorText) ELSE fs[h]]

\* the error branch of the callback send passes to pipeRead: every future of
\* the pipe's pending table gets the error, the table is cleared, readError_ set
FlushPending(fs, cp) ==
  [h \in DOMAIN fs |->
     IF h \in PendingFutures(cp) THEN SetError(fs[h], ReadErrorText) ELSE fs[h]]

ClientReadError(p) ==
  /\ clientReads[p] > 0
  /\ MayFail(p)
  /\ mutex = "free"
  /\ mutex' = p
  /\ futures' = FlushPending(futures, connectedPipes[p])
  /\ connectedPipes' = [connectedPipes EXCEPT
       ![p].pendingResponseMessage_ = EmptyMap, ![p].readError_ = TRUE]
  /\ clientReads' = [clientReads EXCEPT ![p] = @ - 1]
  /\ pipeError' = [pipeError EXCEPT ![p] = TRUE]
  /\ UNCHANGED <<lifecycle, workerNameToURL, nextMessageID, connectCalls, stamped,
                 sendResult, thrown, assertFailed, clientWrites, toServer, toClient,
                 serverVars, threadPool>>

\* the read-error continuation returns: its lock_guard releases mutex_
ReadErrorReturn(p) ==
  /\ mutex = p
  /\ mutex' = "free"
  /\ UNCHANGED <<lifecycle, workerNameToURL, nextMessageID, connectedPipes,
                 connectCalls, futures, stamped, sendResult, thrown, assertFailed,
                 wireVars, serverVars, threadPool>>

\* a lookup by arrival order: the oldest entry of the table
FindOldestPending(cp, response) ==
  IF DOMAIN cp.pendingResponseMessage_ = {} THEN response.id
  ELSE CHOOSE i \in DOMAIN cp.pendingResponseMessage_ :
         \A j \in DOMAIN cp.pendingResponseMessage_ : i <= j

\* the entry of the pending table a response is matched with: find(messageId)
FindPending(cp, response) == response.id

\* the success branch: the two assertions, the lookup and erase by message id
\* under the lock, then the completion task handed to the worker pool
ClientReadDone(p) ==
  /\ clientReads[p] > 0
  /\ ~pipeError[p]
  /\ mutex = "free"
  /\ toClient[p] # <<>>
  /\ LET response == Head(toClient[p])
         cp == connectedPipes[p]
         it == FindPending(cp, response)
     IN IF cp.readError_ \/ it \notin DOMAIN cp.pendingResponseMessage_
        THEN /\ assertFailed' = TRUE
             /\ UNCHANGED <<connectedPipes, threadPool>>
        ELSE /\ connectedPipes' = [connectedPipes EXCEPT
                  ![p].pendingResponseMessage_ = Erase(@, it)]
             /\ threadPool' = [threadPool EXCEPT ![Self] = @ \cup
                  {[future |-> cp.pendingResponseMessage_[it], response |-> response]}]
             /\ UNCHANGED assertFailed
  /\ toClient' = [toClient EXCEPT ![p] = Tail(@)]
  /\ clientReads' = [clientReads EXCEPT ![p] = @ - 1]
  /\ UNCHANGED <<lifecycle, workerNameToURL, nextMessageID, connectCalls, mutex,
                 futures, stamped, sendResult, thrown, clientWrites, toServer,
                 pipeError, serverVars>>

\* a completion that does not look at the type of the response
CompleteAsValue(f, response) == MarkCompleted(f, response)

\* the task of the read continuation: an EXCEPTION response becomes an error
\* whose text is the payload, any other response becomes the value
CompleteWithResponse(f, response) ==
  IF response.type = "EXCEPTION"
  THEN SetError(f, response.payload)
  ELSE MarkCompleted(f, response)

RunClientTask(t) ==
  /\ t \in threadPool[Self]
  /\ futures' = [futures EXCEPT ![t.future] = CompleteWithResponse(@, t.response)]
  /\ threadPool' = [threadPool EXCEPT ![Self] = @ \ {t}]
  /\ UNCHANGED <<lifecycle, workerNameToURL, nextMessageID, connectedPipes, stamped,
                 sendResult, thrown, assertFailed, wireVars, serverVars>>
  /\ UNCHANGED <<connectCalls, mutex>>

\* ------------------------------------------------------------------ server
\* an accept callback that hands the pipe over and issues no further accept
ListenerAcceptedOnce(p, err) ==
  /\ acceptArmed[p]
  /\ IF err
     THEN /\ Faults < MaxFaults
          /\ acceptArmed' = [acceptArmed EXCEPT ![p] = FALSE]
          /\ UNCHANGED serverLoop
     ELSE /\ p \in DOMAIN connectedPipes
          /\ serverLoop[p] = "none"
          /\ serverLoop' = [serverLoop EXCEPT ![p] = "reading"]
          /\ acceptArmed' = [acceptArmed EXCEPT ![p] = FALSE]
  /\ UNCHANGED <<lifecycle, clientVars, wireVars, pendingCb, threadPool>>

\* onListenerAccepted.  An accept completes with the pipe of a connect that no
\* accept has taken yet, or with an error.
ListenerAccepted(p, err) ==
  /\ acceptArmed[p]
  /\ IF err
     THEN /\ Faults < MaxFaults
          /\ acceptArmed' = [acceptArmed EXCEPT ![p] = FALSE]
          /\ UNCHANGED serverLoop
     ELSE /\ p \in DOMAIN connectedPipes
          /\ serverLoop[p] = "none"
          /\ serverLoop' = [serverLoop EXCEPT ![p] = "reading"]
          /\ UNCHANGED acceptArmed
  /\ UNCHANGED <<lifecycle, clientVars, wireVars, pendingCb, threadPool>>

\* a read callback that hands the request to the pool and leaves the
\* connection without a read
ServerReadDoneOnce(p, err) ==
  /\ serverLoop[p] = "reading"
  /\ pipeError[p] => err
  /\ err => MayFail(p)
  /\ IF err
     THEN /\ serverLoop' = [serverLoop EXCEPT ![p] = "closed"]
          /\ pipeError' = [pipeError EXCEPT ![p] = TRUE]
          /\ UNCHANGED <<toServer, threadPool>>
     ELSE /\ toServer[p] # <<>>
          /\ toServer' = [toServer EXCEPT ![p] = Tail(@)]
          /\ threadPool' = [threadPool EXCEPT ![p] = @ \cup
               {[pipe |-> p, messageId |-> Head(toServer[p]).id,
                 requestMessage |-> Head(toServer[p])]}]
          /\ serverLoop' = [serverLoop EXCEPT ![p] = "idle"]
          /\ UNCHANGED pipeError
  /\ UNCHANGED <<lifecycle, clientVars, clientWrites, clientReads, toClient, acceptArmed, pendingCb>>

\* the callback respond passes to pipeRead: on error the loop stops; else the
\* next read is armed and the request goes to the worker pool
ServerReadDone(p, err) ==
  /\ serverLoop[p] = "reading"
  /\ pipeError[p] => err
  /\ err => MayFail(p)
  /\ IF err
     THEN /\ serverLoop' = [serverLoop EXCEPT ![p] = "closed"]
          /\ pipeError' = [pipeError EXCEPT ![p] = TRUE]
          /\ UNCHANGED <<toServer, threadPool>>
     ELSE /\ toServer[p] # <<>>
          /\ toServer' = [toServer EXCEPT ![p] = Tail(@)]
          /\ threadPool' = [threadPool EXCEPT ![p] = @ \cup
               {[pipe |-> p, messageId |-> Head(toServer[p]).id,
                 requestMessage |-> Head(toServer[p])]}]
          /\ UNCHANGED <<serverLoop, pipeError>>
  /\ UNCHANGED <<lifecycle, clientVars, clientWrites, clientReads, toClient, acceptArmed, pendingCb>>

\* createExceptionResponse(what, id)
createExceptionResponse(what, id) == Msg("EXCEPTION", id, what)

\* the future cb_ hands back, once complete: a response or an error
CbFuture(outcome, payload) ==
  IF outcome = "value"
  THEN MarkCompleted(NewFuture, Msg("RESPONSE", UnsetId, CbValue(payload)))
  ELSE SetError(NewFuture, CbError(payload))

\* a response path that does not look at the running flag
sendResponseWhenStopped(writes, running, futureResponseMessage, messageId) ==
  IF futureResponseMessage.state # "error"
  THEN Append(writes, [futureResponseMessage.value EXCEPT !.id = messageId])
  ELSE Append(writes, createExceptionResponse(futureResponseMessage.error, messageId))

\* a response path that leaves the id of the response as the callback made it
sendResponseUnstamped(writes, running, futureResponseMessage, messageId) ==
  IF ~running THEN writes
  ELSE IF futureResponseMessage.state # "error"
  THEN Append(writes, futureResponseMessage.value)
  ELSE Append(writes, createExceptionResponse(futureResponseMessage.error, UnsetId))

\* a response path that writes the moved value whether or not there is an error
sendResponseIgnoringError(writes, running, futureResponseMessage, messageId) ==
  IF ~running THEN writes
  ELSE Append(writes, [futureResponseMessage.value EXCEPT !.id = messageId])

\* sendCompletedResponseMessage: the responses written on the pipe after the
\* call.  The callback it passes to pipeWrite only logs; a response whose write
\* fails is one Self's read fails on.
sendCompletedResponseMessage(writes, running, futureResponseMessage, messageId) ==
  IF ~running THEN writes
  ELSE IF futureResponseMessage.state # "error"
  THEN Append(writes, [futureResponseMessage.value EXCEPT !.id = messageId])
  ELSE Append(writes, createExceptionResponse(futureResponseMessage.error, messageId))

\* the task respond hands to the worker pool: run cb_, catch what it throws,
\* write at once if the future is complete, else register the callback
RunServerTask(p, t, outcome) ==
  /\ t \in threadPool[p]
  /\ threadPool' = [threadPool EXCEPT ![p] = @ \ {t}]
  /\ IF outcome = "deferred"
     THEN /\ pendingCb' = [pendingCb EXCEPT ![p] = @ \cup
               {[pipe |-> t.pipe, messageId |-> t.messageId,
                 payload |-> t.requestMessage.payload]}]
          /\ UNCHANGED toClient
     ELSE /\ toClient' = [toClient EXCEPT ![t.pipe] =
               sendCompletedResponseMessage(@, rpcAgentRunning(p),
                 CbFuture(outcome, t.requestMessage.payload), t.messageId)]
          /\ UNCHANGED pendingCb
  /\ UNCHANGED <<lifecycle, clientVars, clientWrites, clientReads, toServer,
                 pipeError, acceptArmed, serverLoop>>

\* a future cb_ returned incomplete completes: the registered callback runs
FutureCompleted(p, c, outcome) ==
  /\ c \in pendingCb[p]
  /\ pendingCb' = [pendingCb EXCEPT ![p] = @ \ {c}]
  /\ toClient' = [toClient EXCEPT ![c.pipe] =
       sendCompletedResponseMessage(@, rpcAgentRunning(p),
         CbFuture(outcome, c.payload), c.messageId)]
  /\ UNCHANGED <<lifecycle, clientVars, clientWrites, clientReads, toServer,
                 pipeError, acceptArmed, serverLoop, threadPool>>

\* ------------------------------------------------------------------ specification
CbOutcomes == {"value", "throws", "failed", "deferred"}

\* no thread is inside a lock_guard scope on mutex_
NoLockScope == mutex = "free"

\* The read-error continuation runs from its lock_guard to its return without
\* waiting on anything, so its return is taken as the step that follows its
\* flush: the return changes mutex_ only, and what the other threads do in
\* between is what they do right after it.
Next ==
  \/ NoLockScope /\ \E w \in Workers : Start(w)
  \/ NoLockScope /\ \E w \in Workers : Shutdown(w)
  \/ NoLockScope /\ ShutdownImpl(Self)
  \/ NoLockScope /\ \E to \in Destinations, type \in MessageTypes : SendThrows(to, type)
  \/ NoLockScope /\ \E to \in Destinations : Send(to)
  \/ NoLockScope /\ \E p \in Peers, err \in BOOLEAN : ClientWriteDone(p, err)
  \/ NoLockScope /\ \E p \in Peers : ClientReadError(p)
  \/ \E p \in Peers : ReadErrorReturn(p)
  \/ NoLockScope /\ \E p \in Peers : ClientReadDone(p)
  \/ NoLockScope /\ \E t \in threadPool[Self] : RunClientTask(t)
  \/ NoLockScope /\ \E p \in Peers, err \in BOOLEAN : ListenerAccepted(p, err)
  \/ NoLockScope /\ \E p \in Peers, err \in BOOLEAN : ServerReadDone(p, err)
  \/ NoLockScope /\ \E p \in Peers :
       \E t \in threadPool[p], o \in CbOutcomes : RunServerTask(p, t, o)
  \/ NoLockScope /\ \E p \in Peers :
       \E c \in pendingCb[p], o \in {"value", "failed"} : FutureCompleted(p, c, o)

Spec == Init /\ [][Next]_vars

\* the transport, the worker pools and the user callback make progress: every
\* callback that is due is eventually invoked, every task eventually runs
Fairness ==
  /\ WF_vars(\E w \in Workers : Start(w))
  /\ \A p \in Peers :
       /\ WF_vars(\E err \in BOOLEAN : ClientWriteDone(p, err))
       /\ WF_vars(ClientReadDone(p))
       /\ WF_vars(ReadErrorReturn(p))
       /\ WF_vars(\E err \in BOOLEAN : ListenerAccepted(p, err))
       /\ WF_vars(\E err \in BOOLEAN : ServerReadDone(p, err))
       /\ WF_vars(\E t \in threadPool[p], o \in CbOutcomes : RunServerTask(p, t, o))
       /\ WF_vars(\E c \in pendingCb[p], o \in {"value", "failed"} :
                    FutureCompleted(p, c, o))
  /\ WF_vars(\E t \in threadPool[Self] : RunClientTask(t))

LiveSpec == Spec /\ Fairness

\* ------------------------------------------------------------------ claims
Handles == DOMAIN futures

\* the pipe of handle h: the one of the destination its request went to
PipeOf(h) == stamped[h].to

\* C1: no handle returned by send has more than one completion fired on it,
\* whichever of the write-failure, read-failure and read-success paths run.
C1_CompletedAtMostOnce == \A h \in Handles : futures[h].n <= 1

\* the connection of p is not healthy: a write or read of its pipe has failed,
\* or the accept that was to take it has failed
Unhealthy(p) == pipeError[p] \/ (lifecycle[p] # "constructed" /\ ~acceptArmed[p])

\* handle h is outstanding while the sending agent and the agent of its
\* destination are both running
SentWhileRunning(h) ==
  /\ h \in Handles
  /\ rpcAgentRunning(Self)
  /\ rpcAgentRunning(PipeOf(h))

\* C2: under fair progress of transport, pools and callback, every handle send
\* returned while the agents are running, on a connection that stays healthy,
\* is eventually complete.
C2_EventuallyCompleted ==
  \A h \in 1..MaxSends :
    SentWhileRunning(h) ~>
      (h \in Handles /\ (Completed(futures[h]) \/ Unhealthy(PipeOf(h))))

\* C3: a handle completed with a value holds the response that carries the id
\* send stamped on its request, and that answers its own request.
C3_CorrelatedById ==
  \A h \in Handles :
    futures[h].state = "value" =>
      /\ futures[h].value.id = stamped[h].id
      /\ futures[h].value.payload = CbValue(RequestPayload(h))

\* C3 witness: two requests outstanding on one pipe, the later one answered
\* and completed while the earlier one is still in the pending table.
C3_Witness ==
  \E g, h \in Handles :
    /\ g < h
    /\ PipeOf(g) = PipeOf(h)
    /\ futures[h].state = "value"
    /\ futures[g].state = "pending"
    /\ stamped[g].id \in DOMAIN connectedPipes[PipeOf(g)].pendingResponseMessage_

\* a step in which a read of pipe p completed with an error: an armed read is
\* gone and no response was taken
ReadErrorStep(p) ==
  /\ clientReads'[p] < clientReads[p]
  /\ toClient'[p] = toClient[p]

\* C4: when a read of a pipe fails, every handle in its pending table is
\* complete with an error afterwards (with the read error if it was pending),
\* the table is empty, readError_ is set, and no other ClientPipe changes.
C4_ReadErrorFlushes ==
  [][\A p \in Peers : ReadErrorStep(p) =>
       /\ \A h \in PendingFutures(connectedPipes[p]) :
            /\ futures'[h].state = "error"
            /\ ~Completed(futures[h]) => futures'[h].error = ReadErrorText
       /\ connectedPipes'[p].pendingResponseMessage_ = EmptyMap
       /\ connectedPipes'[p].readError_
       /\ \A q \in DOMAIN connectedPipes \ {p} : connectedPipes'[q] = connectedPipes[q]
    ]_vars

\* C4 witness: a pipe flushed by a read error that held two handles, both now
\* failed with the read error.
C4_Witness ==
  \E p \in DOMAIN connectedPipes :
    /\ connectedPipes[p].readError_
    /\ connectedPipes[p].pendingResponseMessage_ = EmptyMap
    /\ \E g, h \in Handles :
         /\ g # h /\ PipeOf(g) = p /\ PipeOf(h) = p
         /\ futures[g].error = ReadErrorText
         /\ futures[h].error = ReadErrorText

\* C5: a send never registers its request in a ClientPipe whose readError_ is
\* set: after a pipe has failed, send connects anew.
C5_SendAvoidsErroredPipe ==
  [][Len(futures') > Len(futures) =>
       ~connectedPipes'[stamped'[Len(futures')].to].readError_]_vars

\* C6: the completion task turns an EXCEPTION response into an error whose
\* text is the payload of the response, and any other response into the value;
\* no handle ever holds an EXCEPTION response as its value.
C6_ExceptionIsError ==
  /\ [](\A h \in Handles :
          futures[h].state = "value" => futures[h].value.type # "EXCEPTION")
  /\ [][\A t \in threadPool[Self] : t \notin threadPool'[Self] =>
          IF t.response.type = "EXCEPTION"
          THEN /\ futures'[t.future].state = "error"
               /\ futures'[t.future].error = t.response.payload
          ELSE /\ futures'[t.future].state = "value"
               /\ futures'[t.future].value = t.response
       ]_vars

\* C6 witness: one handle failed with the text of an EXCEPTION response, another
\* completed with a RESPONSE.
C6_Witness ==
  \E g, h \in Handles :
    /\ futures[g].state = "error"
    /\ futures[g].error = CbError(RequestPayload(g))
    /\ futures[h].state = "value"

\* the peer answers on pipe p with an EXCEPTION response carrying the id and the
\* text, and its server loop is as it was
AnswersException(p, id, text) ==
  /\ toClient'[p] = Append(toClient[p], Msg("EXCEPTION", id, text))
  /\ serverLoop'[p] = serverLoop[p]

\* a step of peer p in which the callback failed for a request: cb_ threw or
\* returned a failed future (when, of running, holds), or a future it returned
\* incomplete failed later
CallbackFailureAnswered(p, when) ==
  /\ \A t \in threadPool[p], o \in {"throws", "failed"} :
       when /\ RunServerTask(p, t, o) =>
         AnswersException(t.pipe, t.messageId, CbFuture(o, t.requestMessage.payload).error)
  /\ \A c \in pendingCb[p] :
       when /\ FutureCompleted(p, c, "failed") =>
         AnswersException(c.pipe, c.messageId, CbFuture("failed", c.payload).error)

\* a handle that failed with the text of a callback failure failed with the
\* text of the failure of its own request
OwnFailureText ==
  \A h \in Handles :
    futures[h].state = "error" /\ futures[h].error \notin {WriteErrorText, ReadErrorText}
      => futures[h].error = CbError(RequestPayload(h))

\* C7: whenever the callback fails for a request, the peer writes an EXCEPTION
\* response with the failure text and the request's id on the same pipe and its
\* server loop goes on; the sender's handle fails with that text.
C7_CallbackFailureIsAnswered ==
  /\ []OwnFailureText
  /\ [][\A p \in Peers : CallbackFailureAnswered(p, TRUE)]_vars

\* C7 as amended: the same, for the failures met while the peer's
\* rpcAgentRunning_ is set at the time the response is to be written.
C7_CallbackFailureIsAnsweredWhileRunning ==
  /\ []OwnFailureText
  /\ [][\A p \in Peers : CallbackFailureAnswered(p, rpcAgentRunning(p))]_vars

\* C7 witness: on one pipe the callback threw for the first request, whose
\* handle failed with that text, and the next request was served and answered.
C7_Witness ==
  \E g, h \in Handles :
    /\ g < h
    /\ PipeOf(g) = PipeOf(h)
    /\ futures[g].state = "error"
    /\ futures[g].error = CbError(RequestPayload(g))
    /\ futures[h].state = "value"
    /\ serverLoop[PipeOf(g)] = "reading"

\* C8: a send that throws because the agent is not running or the destination
\* has no URL changes nothing: no connection, no id taken, no pending entry,
\* no future, no write and no read.
C8_FailedSendHasNoEffect ==
  [][thrown' > thrown /\ sendResult' \in {"not_running", "unknown_worker"} =>
       UNCHANGED <<lifecycle, workerNameToURL, nextMessageID, connectedPipes,
                   connectCalls, mutex, futures, stamped, assertFailed, wireVars,
                   serverVars, threadPool>>]_vars

\* C8 witness: a send threw "not running" after the agent was shut down with a
\* request still outstanding on a pipe.
C8_Witness ==
  /\ sendResult = "not_running"
  /\ thrown > 0
  /\ lifecycle[Self] \in {"stopping", "stopped"}
  /\ \E p \in DOMAIN connectedPipes : connectedPipes[p].pendingResponseMessage_ # EmptyMap

\* a step in which the write at the head of pipe p completed with an error: the
\* write is gone and its request was not delivered
WriteErrorStep(p) ==
  /\ clientWrites[p] # <<>>
  /\ clientWrites'[p] = Tail(clientWrites[p])
  /\ toServer'[p] = toServer[p]

\* C9: when the write of a request fails, the write continuation itself fires
\* the completion of that request's handle with an error, and arms no read.
C9_WriteErrorCompletes ==
  [][\A p \in Peers : WriteErrorStep(p) =>
       LET h == Head(clientWrites[p]).future
       IN /\ futures'[h].state = "error"
          /\ futures'[h].n = futures[h].n + 1
          /\ ~Completed(futures[h]) => futures'[h].error = WriteErrorText
          /\ clientReads' = clientReads
    ]_vars

\* C9 witness: a handle failed with the write error while no read was ever
\* armed on its pipe and nothing was delivered.
C9_Witness ==
  \E h \in Handles :
    /\ futures[h].state = "error"
    /\ futures[h].error = WriteErrorText
    /\ clientReads[PipeOf(h)] = 0
    /\ ~connectedPipes[PipeOf(h)].readError_

\* C10: once shutdown has returned (the worker pool drained), every handle
\* send has returned is complete.
C10_ShutdownCompletesAll ==
  lifecycle[Self] = "stopped" => \A h \in Handles : Completed(futures[h])

\* ------------------------------------------------------------------ C11
\* the pending table of destination p, empty while p has no ClientPipe
PendingTable(p) ==
  IF p \in DOMAIN connectedPipes
  THEN connectedPipes[p].pendingResponseMessage_ ELSE EmptyMap

\* a step of send that registered a new handle
SendStep == Len(futures') = Len(futures) + 1

\* the ids of the handles grow with the order of the sends and lie below the
\* counter, and no two pending tables share a key
IdsInOrder ==
  /\ \A g, h \in Handles : g < h => stamped[g].id < stamped[h].id
  /\ \A h \in Handles : stamped[h].id < nextMessageID
  /\ \A p, q \in Peers :
       p # q => DOMAIN PendingTable(p) \cap DOMAIN PendingTable(q) = {}

\* C11: message ids come from the one counter of the agent, taken in the
\* critical section that also inserts the table entry: the ids of the handles
\* are strictly increasing in the order the sends took the lock, hence pairwise
\* distinct, every id handed out is below the counter, no id is in the pending
\* table of two connections, and the insertion of a send adds a key the table
\* did not hold and leaves every other entry as it was.
C11_IdsUnique ==
  /\ []IdsInOrder
  /\ [][SendStep =>
          \A to \in Peers :
            stamped'[Len(stamped')].to = to =>
              /\ stamped'[Len(stamped')].id = nextMessageID
              /\ nextMessageID \notin DOMAIN PendingTable(to)
              /\ PendingTable(to)' =
                   Put(PendingTable(to), nextMessageID, Len(stamped) + 1)]_vars

\* two sends registered their handles, one in each of two pending tables
C11_Witness ==
  /\ Len(futures) = 2
  /\ \E p, q \in Peers :
       /\ p # q
       /\ DOMAIN PendingTable(p) = {stamped[1].id}
       /\ DOMAIN PendingTable(q) = {stamped[2].id}

\* ------------------------------------------------------------------ C12
\* a step in which the read continuation of pipe p ran with a response
ReadDoneStep(p) ==
  /\ toClient[p] # <<>>
  /\ toClient'[p] = Tail(toClient[p])

\* the message ids of a sequence of messages
IdsOf(msgs) == {msgs[i].id : i \in DOMAIN msgs}

\* C12: the table entry of a request is there before its write is issued, so
\* a read that completes with a response always finds the id of that response
\* in the pending table of its connection (the assertion 'message ID is not
\* recognized' never fires), and that read removes the entry: the handle found
\* goes to the completion task, and no response still to be read on the
\* connection carries the same id.
C12_ResponseIdIsPending ==
  [][/\ ~assertFailed'
     /\ SendStep =>
          \A p \in Peers :
            clientWrites'[p] # clientWrites[p] =>
              clientWrites'[p][Len(clientWrites'[p])].message.id
                \in DOMAIN PendingTable(p)'
     /\ \A p \in Peers :
          ReadDoneStep(p) =>
            LET id == Head(toClient[p]).id
            IN /\ ~connectedPipes[p].readError_
               /\ id \in DOMAIN PendingTable(p)
               /\ PendingTable(p)' = Erase(PendingTable(p), id)
               /\ id \notin DOMAIN PendingTable(p)'
               /\ id \notin IdsOf(toClient'[p])
               /\ threadPool'[Self] = threadPool[Self] \cup
                    {[future |-> PendingTable(p)[id],
                      response |-> Head(toClient[p])]}]_vars

\* a response was read and matched while another request of the same
\* connection is still pending: the table holds that one only
C12_Witness ==
  \E p \in Peers :
    /\ Len(futures) = 2 /\ PipeOf(1) = p /\ PipeOf(2) = p
    /\ \E t \in threadPool[Self] : t.response.id \notin DOMAIN PendingTable(p)
    /\ Cardinality(DOMAIN PendingTable(p)) = 1
    /\ ~assertFailed

\* ------------------------------------------------------------------ C13
\* a step in which the read callback of respond ran with a request of pipe p
ServerReadStep(p) ==
  /\ toServer[p] # <<>>
  /\ toServer'[p] = Tail(toServer[p])

\* C13: the read callback of the server re-issues the read of the connection
\* and hands the request to the worker pool; it neither runs the user callback
\* nor writes a response itself.  So a later request of the connection is read
\* and dispatched while the callback of an earlier one has not run to its end
\* or the future it returned is not complete.
C13_ReadRearmedBeforeCallback ==
  [][\A p \in Peers :
       ServerReadStep(p) =>
         /\ serverLoop'[p] = "reading"
         /\ threadPool'[p] = threadPool[p] \cup
              {[pipe |-> p, messageId |-> Head(toServer[p]).id,
                requestMessage |-> Head(toServer[p])]}
         /\ toClient' = toClient
         /\ pendingCb' = pendingCb]_vars

\* the future of an earlier request is still incomplete, no response to it is
\* written, and a later request of the same connection is already in the pool
C13_Witness ==
  \E p \in Peers :
    \E c \in pendingCb[p], t \in threadPool[p] :
      /\ c.pipe = t.pipe
      /\ c.messageId < t.messageId
      /\ toClient[p] = <<>>
      /\ serverLoop[p] = "reading"

\* ------------------------------------------------------------------ C14
\* how many messages of a sequence carry the id
CountId(msgs, id) == Cardinality({i \in DOMAIN msgs : msgs[i].id = id})

\* the places on the way from the request write to the completion of the
\* handle at which the request with the id, or a response to it, lies on pipe p
Occurrences(p, id) ==
  Cardinality({i \in DOMAIN clientWrites[p] : clientWrites[p][i].message.id = id})
  + CountId(toServer[p], id)
  + Cardinality({t \in threadPool[p] : t.messageId = id})
  + Cardinality({c \in pendingCb[p] : c.messageId = id})
  + CountId(toClient[p], id)
  + Cardinality({t \in threadPool[Self] : t.response.id = id /\ PipeOf(t.future) = p})

\* the request of a handle and the responses to it lie at one place at most,
\* on the pipe of the handle, and nowhere once a response completed the handle
AtOnePlace ==
  \A h \in Handles :
    /\ Occurrences(PipeOf(h), stamped[h].id) <= 1
    /\ \A q \in Peers \ {PipeOf(h)} : Occurrences(q, stamped[h].id) = 0
    /\ Completed(futures[h]) /\ futures[h].error \notin {WriteErrorText, ReadErrorText}
         => Occurrences(PipeOf(h), stamped[h].id) = 0

\* a step in which the server end of pipe p wrote a response
ResponseWriteStep(p) == Len(toClient'[p]) > Len(toClient[p])

\* the requests the server end of p stops handling in a step: pool tasks that
\* ran and incomplete futures that completed
Answered(p) == (threadPool[p] \ threadPool'[p]) \cup (pendingCb[p] \ pendingCb'[p])

\* C14: a response the server writes, of normal or of exception kind, carries
\* the message id of the request it answers and goes out on the connection
\* that request was read from, and no request gets two responses, whether the
\* future of the callback was complete when the callback returned or completed
\* later: each write step appends one response, for the one request the step
\* stops handling, and no id lies at two places between request and completion.
C14_ResponseCarriesRequestId ==
  /\ []AtOnePlace
  /\ [][\A p \in Peers :
          ResponseWriteStep(p) =>
            /\ toClient'[p] = Append(toClient[p], toClient'[p][Len(toClient'[p])])
            /\ \A q \in Peers \ {p} : toClient'[q] = toClient[q]
            /\ \E x \in Answered(p) :
                 /\ Answered(p) = {x}
                 /\ x.pipe = p
                 /\ toClient'[p][Len(toClient'[p])].id = x.messageId
                 /\ toClient'[p][Len(toClient'[p])].type \in {"RESPONSE", "EXCEPTION"}]_vars

\* both kinds of response were written: the first request was answered at the
\* return of the callback, the second, on the same connection, by a future
\* that completed later with an error
C14_Witness ==
  \E p \in Peers :
    /\ Len(toClient[p]) = 2
    /\ toClient[p][1].type = "RESPONSE" /\ toClient[p][1].id = stamped[1].id
    /\ toClient[p][2].type = "EXCEPTION" /\ toClient[p][2].id = stamped[2].id
    /\ PipeOf(1) = p /\ PipeOf(2) = p

\* ------------------------------------------------------------------ C15
\* C15: once the running flag of a server is cleared it writes no response
\* any more: a pool task or a completed future that gets to the write after
\* that point, also one whose request was read and dispatched before, is
\* dropped without a write.
C15_NoResponseAfterStop ==
  [][\A p \in Peers :
       ~rpcAgentRunning(p) =>
         /\ ~ResponseWriteStep(p)
         /\ Answered(p) # {} /\ pendingCb'[p] \subseteq pendingCb[p]
              => toClient'[p] = toClient[p]]_vars

\* the peer was stopped with a request in its hands, handled it and wrote
\* nothing: the sender still waits with its read armed on a healthy pipe
C15_Witness ==
  \E p \in Peers, h \in Handles :
    /\ ~rpcAgentRunning(p)
    /\ PipeOf(h) = p
    /\ ~Completed(futures[h])
    /\ Occurrences(p, stamped[h].id) = 0
    /\ clientReads[p] > 0
    /\ ~pipeError[p]

\* ------------------------------------------------------------------ C16
\* a step in which the accept callback of p ran with an error
AcceptErrorStep(p) == acceptArmed[p] /\ ~acceptArmed'[p]

\* a step in which the accept callback of p ran with a new pipe
AcceptStep(p) == serverLoop[p] = "none" /\ serverLoop'[p] # "none"

\* C16: only a successful accept re-arms the accept loop.  A successful accept
\* leaves one accept outstanding and starts the server loop on the new
\* connection; an accept that fails issues no accept and starts no server
\* loop, and from then on the listener has no accept outstanding, so no
\* inbound connection is accepted any more.
C16_AcceptRearmedOnSuccessOnly ==
  [][\A p \in Peers :
       /\ AcceptStep(p) =>
            acceptArmed[p] /\ acceptArmed'[p] /\ serverLoop'[p] = "reading"
       /\ AcceptErrorStep(p) => serverLoop' = serverLoop
       /\ lifecycle[p] # "constructed" /\ ~acceptArmed[p] =>
            ~acceptArmed'[p] /\ ~AcceptStep(p)]_vars

\* the accept of a running peer failed; the connection Self made afterwards
\* is never accepted and the request written on it is never read
C16_Witness ==
  \E p \in Peers :
    /\ rpcAgentRunning(p)
    /\ ~acceptArmed[p]
    /\ p \in DOMAIN connectedPipes
    /\ serverLoop[p] = "none"
    /\ toServer[p] # <<>>

\* ------------------------------------------------------------------ C17
\* a step in which the write continuation of pipe p ran without error
WriteOkStep(p) ==
  /\ clientWrites[p] # <<>>
  /\ clientWrites'[p] = Tail(clientWrites[p])
  /\ toServer'[p] = Append(toServer[p], Head(clientWrites[p]).message)

\* the response to the request of handle h was read
ResponseRead(h) ==
  \/ \E t \in threadPool[Self] : t.future = h
  \/ futures[h].state = "value"
  \/ futures[h].state = "error" /\ futures[h].error \notin {WriteErrorText, ReadErrorText}

\* the write of the request of handle h failed: the handle holds the write
\* error, or was completed a second time, which only a failed write after a
\* flush or a flush after a failed write does
WriteFailed(h) == futures[h].error = WriteErrorText \/ futures[h].n = 2

\* the handles of pipe p whose request was written and whose response was not
\* read yet
WrittenUnread(p) ==
  {h \in Handles :
     /\ PipeOf(h) = p
     /\ \A i \in DOMAIN clientWrites[p] : clientWrites[p][i].future # h
     /\ ~WriteFailed(h)
     /\ ~ResponseRead(h)}

\* the reads armed on pipe p stay within the requests written and not answered
ReadsWithinWritten == \A p \in Peers : clientReads[p] <= Cardinality(WrittenUnread(p))

\* C17: the client arms one read for each request write that completes
\* without error and none otherwise: the count of armed reads of a connection
\* goes up, by one, in the steps in which a write of that connection succeeds
\* and in no other step, so reads armed and writes succeeded stay equal in
\* number, and the reads outstanding never exceed the requests written
\* successfully whose responses have not been read.
C17_OneReadPerWrittenRequest ==
  /\ []ReadsWithinWritten
  /\ [][\A p \in Peers :
          /\ WriteOkStep(p) => clientReads'[p] = clientReads[p] + 1
          /\ clientReads'[p] > clientReads[p] => WriteOkStep(p)
          /\ WriteErrorStep(p) => clientReads'[p] = clientReads[p]]_vars

\* two requests were written on one connection and one response was read: one
\* read is outstanding, for the one request still unanswered
C17_Witness ==
  \E p \in Peers :
    /\ clientReads[p] = 1
    /\ Cardinality(WrittenUnread(p)) = 1
    /\ \E h \in Handles : PipeOf(h) = p /\ ResponseRead(h)

\* ------------------------------------------------------------------ C18
\* C18: a handle stored in a pending table is not complete yet; a handle that
\* was completed, by a write failure, a read failure or the response matched
\* to it, is in no table any more.
C18_PendingNotCompleted ==
  \A p \in Peers :
    \A id \in DOMAIN PendingTable(p) : ~Completed(futures[PendingTable(p)[id]])

\* ------------------------------------------------------------------ C19
\* a step that runs inside a lock_guard scope on mutex_ that is still open
\* when the step ends
UnderLockStep == mutex = "free" /\ mutex' # "free"

\* a step that completes a handle
CompletionStep == \E h \in Handles : futures'[h].n > futures[h].n

\* a step that issues a pipe write or a pipe read on the client side
ClientIoStep ==
  \E p \in Peers :
    \/ Len(clientWrites'[p]) > Len(clientWrites[p])
    \/ clientReads'[p] > clientReads[p]

\* C19: mutex_ is not held while a handle is completed nor while a pipe read
\* or write is issued: on the write-failure path, on the matched-response path
\* and in the read-failure flush the lock is released before setError or
\* markCompleted runs.
C19_NoCompletionUnderLock ==
  [][CompletionStep \/ ClientIoStep => ~UnderLockStep]_vars

\* ------------------------------------------------------------------ C20
\* the registry connected once to each destination it has an entry for, and
\* to no other
ConnectedOnce ==
  \A p \in Peers : connectCalls[p] = IF p \in DOMAIN connectedPipes THEN 1 ELSE 0

\* C20: the registry holds one outbound connection state per destination.
\* connect is called once for a destination, by the first send to it; every
\* later send to that destination keeps the ClientPipe and its pipe, adding
\* its entry to the same pending table and writing on the same pipe, and no
\* entry of the registry is ever removed or put in place of another.
C20_OneClientPipePerDestination ==
  /\ []ConnectedOnce
  /\ [][/\ \A p \in DOMAIN connectedPipes :
          /\ p \in DOMAIN connectedPipes'
          /\ connectedPipes'[p].pipe_ = connectedPipes[p].pipe_
          /\ connectCalls'[p] = connectCalls[p]
          /\ SendStep /\ stamped'[Len(stamped')].to = p =>
               /\ DOMAIN PendingTable(p) \subseteq DOMAIN PendingTable(p)'
               /\ \A id \in DOMAIN PendingTable(p) :
                    PendingTable(p)'[id] = PendingTable(p)[id]
               /\ Len(clientWrites'[connectedPipes[p].pipe_]) =
                    Len(clientWrites[connectedPipes[p].pipe_]) + 1
        /\ \A p \in Peers \ DOMAIN connectedPipes :
             p \in DOMAIN connectedPipes' =>
               SendStep /\ stamped'[Len(stamped')].to = p /\ connectCalls'[p] = 1]_vars

\* two sends went to one destination: one connect, one ClientPipe holding the
\* entries of both
C20_Witness ==
  \E p \in Peers :
    /\ connectCalls[p] = 1
    /\ DOMAIN PendingTable(p) = {stamped[h].id : h \in Handles}
    /\ Len(futures) = 2

==============================================================================
